---- MODULE Spec2Model ----
(***************************************************************************)
(* GoInstaller: a privilege-gated installer.  main checks privileges,      *)
(* creates the directories, deploys the embedded data, program, gui and    *)
(* service files, updates the system PATH (Windows) and runs the           *)
(* post-install commands.                                                  *)
(*                                                                         *)
(* Strings that the code inspects character by character (the registry     *)
(* Path value, command lines) are sequences of one-character strings.      *)
(* File contents, directory names and file names are opaque strings.       *)
(***************************************************************************)
EXTENDS Integers, Sequences, FiniteSets, TLC

VARIABLES
    goos,       \* runtime.GOOS: "windows" or "linux"
    hasProc,    \* advapi32.dll resolves the name given to regCreateKeyEx
    pc,         \* position of main
    idx,        \* index of the loop the position is in (directory, category, command)
    fidx,       \* index of the next entry of the category being deployed
    exited,     \* the process has terminated
    status,     \* its exit status, meaningful once exited
    fs,         \* file system: path -> content, Absent when there is no file
    dirs,       \* directories that exist
    regPath,    \* the machine environment key's Path value, as stored
    service,    \* service control manager: state of the application's service
    shortcut,   \* target of the start-menu link, NoLink when there is none
    log,        \* what this run has done so far, in order
    run,        \* number of the installer run
    snap,       \* the machine as this run found it
    arg,        \* argument of the function under test (function specifications)
    ret,        \* its result
    called      \* the function under test has returned

vars == <<goos, hasProc, pc, idx, fidx, exited, status, fs, dirs, regPath,
          service, shortcut, log, run, snap, arg, ret, called>>

installerVars == <<goos, hasProc, pc, idx, fidx, exited, status, fs, dirs, regPath,
                   service, shortcut, log, run, snap>>

-----------------------------------------------------------------------------
(* Bounds *)

MaxRuns == 2

MaxListLen == 3

MaxValueLen == 2

MaxCmdLen == 3

MaxPublishes == 2

-----------------------------------------------------------------------------
(* Sequences of characters *)

RECURSIVE SeqsUpTo(_, _)
SeqsUpTo(S, n) ==
    IF n = 0 THEN {<<>>}
    ELSE LET shorter == SeqsUpTo(S, n - 1)
         IN  shorter \cup {Append(s, c) : s \in {t \in shorter : Len(t) = n - 1}, c \in S}

Last(s) == s[Len(s)]

IsPrefix(p, s) == Len(p) <= Len(s) /\ SubSeq(s, 1, Len(p)) = p

StartsWith(s, old) == IsPrefix(old, s)

\* strings.ReplaceAll for a non-empty old: non-overlapping matches, left to right
RECURSIVE ReplaceAll(_, _, _)
ReplaceAll(s, old, new) ==
    IF s = <<>> THEN <<>>
    ELSE IF StartsWith(s, old)
         THEN new \o ReplaceAll(SubSeq(s, Len(old) + 1, Len(s)), old, new)
         ELSE <<Head(s)>> \o ReplaceAll(Tail(s), old, new)

NUL == "NUL"

\* syscall.UTF16ToString: the code units before the first NUL
RECURSIVE UTF16ToString(_)
UTF16ToString(buffer) ==
    IF buffer = <<>> \/ Head(buffer) = NUL THEN <<>>
    ELSE <<Head(buffer)>> \o UTF16ToString(Tail(buffer))

-----------------------------------------------------------------------------
(* installer_windows.go: pure functions *)

add_string_list_value_no_check(list, new_value, separator) ==
    IF Len(list) = 0 THEN new_value
    ELSE list \o <<separator>> \o new_value

\* the join that treats an empty list like any other
add_string_list_value_always_joins(list, new_value, separator) ==
    IF Len(list) = 0 \/ list[Len(list)] # separator
    THEN (list \o <<separator>>) \o new_value
    ELSE list \o (new_value \o <<separator>>)

\* the join that leaves the list alone when it is the new value already
add_string_list_value_once(list, new_value, separator) ==
    IF Len(list) = 0 THEN new_value
    ELSE IF list = new_value THEN list
    ELSE IF list[Len(list)] # separator
         THEN (list \o <<separator>>) \o new_value
         ELSE list \o (new_value \o <<separator>>)

add_string_list_value(list, new_value, separator) ==
    IF Len(list) = 0 THEN new_value
    ELSE IF list[Len(list)] # separator
         THEN (list \o <<separator>>) \o new_value
         ELSE list \o (new_value \o <<separator>>)

CmdPrefix == <<"C:\\Windows\\System32\\cmd.exe /C ">>

escape_swapped(command) ==
    ReplaceAll(ReplaceAll(command, <<"\"">>, <<"^", "\"">>), <<"^">>, <<"^", "^">>)

escape_command(command) ==
    ReplaceAll(ReplaceAll(command, <<"^">>, <<"^", "^">>), <<"\"">>, <<"^", "\"">>)

\* SysProcAttr.CmdLine of the process execute_windows_command builds
execute_windows_command(command) == CmdPrefix \o escape_command(command)

-----------------------------------------------------------------------------
(* GoInstaller.go: what is built into the binary *)

Categories == {"data", "program", "gui", "service"}

\* order of the process_directory calls of process_directories
CategoryOrderGuiLast == <<"data", "program", "service", "gui">>

CategoryOrder == <<"data", "program", "gui", "service">>

\* the embedded bundle: every category holds at least one entry (go:embed
\* refuses a pattern that matches nothing); an entry that is a directory
\* cannot be read with ReadFile
Bundle(cat) ==
    CASE cat = "data"    -> << [name |-> "cfg",  data |-> "cfg bytes",  isDir |-> FALSE],
                               [name |-> "sub",  data |-> "",           isDir |-> TRUE] >>
      [] cat = "program" -> << [name |-> "app",  data |-> "app bytes",  isDir |-> FALSE],
                               [name |-> "tool", data |-> "tool bytes", isDir |-> FALSE] >>
      [] cat = "gui"     -> << [name |-> "ui",   data |-> "ui bytes",   isDir |-> FALSE] >>
      [] cat = "service" -> << [name |-> "svc",  data |-> "svc bytes",  isDir |-> FALSE] >>

\* ${WINDOWS_COMMANDS} / ${LINUX_COMMANDS}: the command list of the platform
Commands(os) ==
    IF os = "windows"
    THEN << <<"e", " ", "\"", "h", "^", "b", "\"">>, <<"x", "^">> >>
    ELSE << <<"l", " ", "\"", "h", "\"">>, <<"y">>, <<"z">> >>

program_directory(os) ==
    IF os = "windows" THEN "%PROGRAMFILES%\\app" ELSE "/usr/local/bin/app"

data_directory(os) ==
    IF os = "windows" THEN "%PROGRAMDATA%\\app" ELSE "/var/lib/app"

\* the create_directory calls of create_directories, in order
DirectoriesToCreate(os) ==
    IF os = "windows"
    THEN <<program_directory(os), data_directory(os)>>
    ELSE <<program_directory(os), data_directory(os), "/var/log/app">>

\* every category but data next to the program files, on every platform
TargetDirAlongside(os, cat) ==
    IF cat = "data" THEN data_directory(os) ELSE program_directory(os)

\* file.path as process_directories sets it for a category
TargetDir(os, cat) ==
    CASE cat = "data"    -> data_directory(os)
      [] cat = "program" -> program_directory(os)
      [] cat = "gui"     -> program_directory(os)
      [] cat = "service" -> IF os = "windows" THEN program_directory(os)
                            ELSE "/etc/systemd/system"

\* the callbacks set whatever the platform
CallbackOnEveryPlatform(os, cat) ==
    CASE cat = "data"    -> "nil"
      [] cat = "program" -> "nil"
      [] cat = "gui"     -> "add_to_windows_menu"
      [] cat = "service" -> "create_service"

\* file.callback as process_directories leaves it for a category
Callback(os, cat) ==
    CASE cat = "data"    -> "nil"
      [] cat = "program" -> "nil"
      [] cat = "gui"     -> IF os = "windows" THEN "add_to_windows_menu" ELSE "nil"
      [] cat = "service" -> IF os = "windows" THEN "create_service" ELSE "nil"

\* filepath.Join(file.path, file.name)
FullPath(dir, name) == <<dir, name>>

AllPaths(os) ==
    UNION {{FullPath(TargetDir(os, c), Bundle(c)[i].name) : i \in 1..Len(Bundle(c))} :
              c \in Categories}

DataPaths(os) == {p \in AllPaths(os) : p[1] = data_directory(os)}

Absent == "<absent>"

Partial == "<truncated>"

NoLink == <<>>

-----------------------------------------------------------------------------
(* Privileges *)

\* installer_linux.go
check_root(euid) == [priv |-> euid = 0, err |-> FALSE]

\* installer_windows.go: o holds what the three OS calls return
check_administrator(o) ==
    IF o.allocRet = 0 THEN [priv |-> FALSE, err |-> TRUE]
    ELSE IF o.queryRet = 0 THEN [priv |-> FALSE, err |-> TRUE]
    ELSE IF o.freeRet # 0 THEN [priv |-> FALSE, err |-> TRUE]
    ELSE [priv |-> o.is_member # 0, err |-> FALSE]

check_privileges(os, o) ==
    IF os = "windows" THEN check_administrator(o) ELSE check_root(o.euid)

PrivilegeInputs(os) ==
    IF os = "windows"
    THEN [euid : {0}, allocRet : {0, 1}, queryRet : {0, 1}, freeRet : {0, 1},
          is_member : {0, 1}]
    ELSE [euid : {0, 1000}, allocRet : {0}, queryRet : {0}, freeRet : {0},
          is_member : {0}]

\* main: the condition under which it exits with status 5
refuses_only_errors(r) == r.err

refuses(r) == r.err \/ ~r.priv

-----------------------------------------------------------------------------
(* Files *)

\* what os.Stat can answer for a path holding content
StatOutcomes(content) ==
    IF content = Absent THEN {"ErrNotExist", "other error"} ELSE {"nil", "other error"}

\* file_exists that answers true only when os.Stat succeeded
file_exists_when_stat_succeeds(statErr) == statErr = "nil"

file_exists(statErr) == statErr # "ErrNotExist"

\* write_file: the condition under which it calls os.WriteFile
writes_always(filetype, statErr) == TRUE

writes_unless_exists(filetype, statErr) == ~file_exists(statErr)

writes(filetype, statErr) == filetype # "data" \/ ~file_exists(statErr)

WriteOutcomes == {"nil", "open error", "write error"}

\* the file system after os.WriteFile(path, data) ended with err

written(files, path, data, err) ==
    CASE err = "nil"         -> [files EXCEPT ![path] = data]
      [] err = "open error"  -> files
      [] err = "write error" -> [files EXCEPT ![path] = Partial]

-----------------------------------------------------------------------------
(* installer_windows.go: operating-system integration *)

\* LazyProc.Call panics when the DLL does not export the name; its error result
\* is never nil (it is the thread's last error, possibly Errno(0)), so the
\* "err != nil" test after RegCreateKeyEx always takes the failure branch
add_application_source_log(found) ==
    IF ~found THEN "panic" ELSE "Failed to register event source"

NoValue == [exists |-> FALSE, data |-> <<>>]

\* the registry calls report their status in the return value, which the code
\* discards; it tests the thread's last error (o.*Err), which they need not set
\* (a call that is not reached has no outcome: its fields stay at their first value)
PathInputs ==
    {o \in [openOk : BOOLEAN, openErr : {0, 1}, sizeErr : {0, 1}, contentErr : {0, 1},
            setOk : BOOLEAN, setErr : {0, 1}] :
        /\ o.openErr # 0 => (o.openOk /\ o.sizeErr = 0)
        /\ (o.openErr # 0 \/ o.sizeErr # 0) => o.contentErr = 0
        /\ (o.openErr # 0 \/ o.sizeErr # 0 \/ o.contentErr # 0)
              => (o.setOk /\ o.setErr = 0)}

add_to_system_path(value, new_path, o) ==
    IF o.openErr # 0 THEN [res |-> "failed to open registry key", value |-> value]
    ELSE
      LET buffer_size == IF o.openOk /\ value.exists THEN 2 * Len(value.data) ELSE 0
      IN
      IF o.sizeErr # 0 THEN [res |-> "Error getting buffer size", value |-> value]
      ELSE IF buffer_size \div 2 = 0 THEN [res |-> "panic", value |-> value]
      ELSE IF o.contentErr # 0 THEN [res |-> "failed to query Path value", value |-> value]
      ELSE
        LET buffer == value.data
            new_path_value == add_string_list_value(UTF16ToString(buffer), new_path, ";")
            stored == IF o.setOk THEN [exists |-> TRUE, data |-> new_path_value]
                      ELSE value
        IN  IF o.setErr # 0
            THEN [res |-> "failed to set new Path value", value |-> stored]
            ELSE [res |-> "nil", value |-> stored]

\* what the service control manager and CreateSymbolicLinkW can answer: a
\* service or a link that exists cannot be created again
HookInputs(callback, svc, link) ==
    CASE callback = "create_service" ->
            {o \in [scm : {0, 1}, create : {0, 1}, start : {0, 1}, link : {0}] :
                svc # "none" => o.create = 0}
      [] callback = "add_to_windows_menu" ->
            {o \in [scm : {0}, create : {0}, start : {0}, link : {0, 1}] :
                link # NoLink => o.link = 0}
      [] OTHER -> {[scm |-> 0, create |-> 0, start |-> 0, link |-> 0]}

create_service(svc, o) ==
    IF o.scm = 0 THEN [res |-> "failed to open Service Control Manager", service |-> svc]
    ELSE IF o.create = 0 THEN [res |-> "failed to create service", service |-> svc]
    ELSE IF o.start = 0 THEN [res |-> "failed to start service", service |-> "stopped"]
    ELSE [res |-> "Service is running.", service |-> "running"]

add_to_windows_menu(link, executable_path, o) ==
    IF o.link = 0 THEN [res |-> "failed to generate the symlink", shortcut |-> link]
    ELSE [res |-> "nil", shortcut |-> executable_path]

-----------------------------------------------------------------------------
(* The run *)

Event(op, cat, path, res) ==
    [op |-> op, cat |-> cat, path |-> path, res |-> res,
     pre |-> "", stat |-> "", n |-> 0, cmd |-> <<>>]

Machine ==
    [fs |-> fs, dirs |-> dirs, regPath |-> regPath, service |-> service,
     shortcut |-> shortcut]

InitialPathValues ==
    {NoValue,
     [exists |-> TRUE, data |-> <<NUL>>],
     [exists |-> TRUE, data |-> <<"a", ";", NUL>>]}

NoArg == [fn |-> "none"]

InitInstaller ==
    /\ goos \in {"windows", "linux"}
    /\ hasProc \in (IF goos = "windows" THEN BOOLEAN ELSE {TRUE})
    /\ pc = "check_privileges"
    /\ idx = 1
    /\ fidx = 1
    /\ exited = FALSE
    /\ status = 0
    /\ \E found \in {Absent, "old bytes"} : fs = [p \in AllPaths(goos) |-> found]
    /\ dirs = {}
    /\ regPath \in (IF goos = "windows" THEN InitialPathValues ELSE {NoValue})
    /\ service = "none"
    /\ shortcut = NoLink
    /\ log = <<>>
    /\ run = 1
    /\ snap = [fs |-> fs, dirs |-> dirs, regPath |-> regPath, service |-> service,
               shortcut |-> shortcut]

Init ==
    /\ InitInstaller
    /\ arg = NoArg
    /\ ret = <<>>
    /\ called = FALSE

\* os.Exit(code), or the exit of the runtime on a panic (status 2)
ExitWith(code) ==
    /\ exited' = TRUE
    /\ status' = code
    /\ pc' = "exited"

PrivilegeResult(r) ==
    IF r.err THEN "error" ELSE IF r.priv THEN "privileged" ELSE "not privileged"

\* main, lines 66-73
CheckPrivileges ==
    /\ pc = "check_privileges"
    /\ ~exited
    /\ \E o \in PrivilegeInputs(goos) :
          LET r == check_privileges(goos, o)
          IN  /\ log' = Append(log, Event("check_privileges", "", <<>>, PrivilegeResult(r)))
              /\ IF refuses(r)
                 THEN ExitWith(5)
                 ELSE /\ pc' = "create_directories"
                      /\ UNCHANGED <<exited, status>>
    /\ UNCHANGED <<goos, hasProc, idx, fidx, fs, dirs, regPath, service, shortcut,
                   run, snap, arg, ret, called>>

\* one create_directory call of create_directories
CreateDirectory ==
    /\ pc = "create_directories"
    /\ ~exited
    /\ LET todo == DirectoriesToCreate(goos)
           path == todo[idx]
       IN  \E err \in {"nil", "error"} :
              /\ log' = Append(log, [Event("create_directory", "", <<path>>, err)
                                        EXCEPT !.n = idx])
              /\ IF err # "nil"
                 THEN /\ ExitWith(1)
                      /\ UNCHANGED <<dirs, idx>>
                 ELSE /\ dirs' = dirs \cup {path}
                      /\ UNCHANGED <<exited, status>>
                      /\ IF idx < Len(todo)
                         THEN /\ idx' = idx + 1
                              /\ pc' = pc
                         ELSE /\ idx' = 1
                              /\ pc' = IF goos = "windows"
                                       THEN "add_application_source_log"
                                       ELSE "process_directories"
    /\ UNCHANGED <<goos, hasProc, fidx, fs, regPath, service, shortcut, run, snap,
                   arg, ret, called>>

\* create_directories, line 107
AddApplicationSourceLog ==
    /\ pc = "add_application_source_log"
    /\ ~exited
    /\ LET res == add_application_source_log(hasProc)
       IN  /\ log' = Append(log, Event("add_application_source_log", "", <<>>, res))
           /\ IF res = "panic"
              THEN ExitWith(2)
              ELSE /\ pc' = "process_directories"
                   /\ UNCHANGED <<exited, status>>
    /\ UNCHANGED <<goos, hasProc, idx, fidx, fs, dirs, regPath, service, shortcut,
                   run, snap, arg, ret, called>>

\* the callback of process_file, line 191: what it reports and what it leaves
RunCallback(callback, fullfilepath, o) ==
    CASE callback = "create_service" ->
            LET r == create_service(service, o)
            IN  [events |-> <<Event("create_service", "service", fullfilepath, r.res)>>,
                 service |-> r.service, shortcut |-> shortcut]
      [] callback = "add_to_windows_menu" ->
            LET r == add_to_windows_menu(shortcut, fullfilepath, o)
            IN  [events |-> <<Event("add_to_windows_menu", "gui", fullfilepath, r.res)>>,
                 service |-> service, shortcut |-> r.shortcut]
      [] OTHER -> [events |-> <<>>, service |-> service, shortcut |-> shortcut]

\* the loops of process_directories and process_directory: the entry after this one
NextEntry ==
    IF fidx < Len(Bundle(CategoryOrder[idx]))
    THEN /\ fidx' = fidx + 1
         /\ UNCHANGED <<idx, pc>>
    ELSE /\ fidx' = 1
         /\ IF idx < Len(CategoryOrder)
            THEN /\ idx' = idx + 1
                 /\ pc' = pc
            ELSE /\ idx' = 1
                 /\ pc' = IF goos = "windows" THEN "add_to_system_path"
                          ELSE "run_commands"

\* process_file on the next entry: ReadFile, write_file, callback
ProcessFile ==
    /\ pc = "process_directories"
    /\ ~exited
    /\ LET cat == CategoryOrder[idx]
           entry == Bundle(cat)[fidx]
           fullfilepath == FullPath(TargetDir(goos, cat), entry.name)
           callback == Callback(goos, cat)
           pre == fs[fullfilepath]
       IN  IF entry.isDir
           THEN /\ log' = Append(log, [Event("ReadFile", cat, fullfilepath, "error")
                                          EXCEPT !.pre = pre, !.n = fidx])
                /\ NextEntry
                /\ UNCHANGED <<exited, status, fs, service, shortcut>>
           ELSE \E statErr \in StatOutcomes(pre), err \in WriteOutcomes,
                   o \in HookInputs(callback, service, shortcut) :
                   LET hook == RunCallback(callback, fullfilepath, o)
                       ev(res) == [Event("write_file", cat, fullfilepath, res)
                                      EXCEPT !.pre = pre, !.n = fidx,
                                             !.stat = IF cat = "data" THEN statErr ELSE ""]
                   IN  IF writes(cat, statErr)
                       THEN /\ fs' = written(fs, fullfilepath, entry.data, err)
                            /\ IF err # "nil"
                               THEN /\ log' = Append(log, ev("error"))
                                    /\ ExitWith(2)
                                    /\ UNCHANGED <<idx, fidx, service, shortcut>>
                               ELSE /\ log' = Append(log, ev("Installed")) \o hook.events
                                    /\ service' = hook.service
                                    /\ shortcut' = hook.shortcut
                                    /\ NextEntry
                                    /\ UNCHANGED <<exited, status>>
                       ELSE /\ log' = Append(log, ev("Data file already exists"))
                                         \o hook.events
                            /\ service' = hook.service
                            /\ shortcut' = hook.shortcut
                            /\ NextEntry
                            /\ UNCHANGED <<exited, status, fs>>
    /\ UNCHANGED <<goos, hasProc, dirs, regPath, run, snap, arg, ret, called>>

\* main, lines 78-80
AddToSystemPath ==
    /\ pc = "add_to_system_path"
    /\ ~exited
    /\ \E o \in PathInputs :
          LET r == add_to_system_path(regPath, <<program_directory(goos)>>, o)
          IN  /\ regPath' = r.value
              /\ log' = Append(log, Event("add_to_system_path", "",
                                          <<program_directory(goos)>>,
                                          IF r.res \in {"nil", "panic"} THEN r.res
                                          ELSE "error"))
              /\ IF r.res = "panic"
                 THEN /\ ExitWith(2)
                      /\ UNCHANGED idx
                 ELSE /\ pc' = "run_commands"
                      /\ idx' = 1
                      /\ UNCHANGED <<exited, status>>
    /\ UNCHANGED <<goos, hasProc, fidx, fs, dirs, service, shortcut, run, snap,
                   arg, ret, called>>

\* the process run_commands starts for a command
launch(os, command) ==
    IF os = "windows" THEN execute_windows_command(command)
    ELSE <<"sh", "-c">> \o command

\* the loop of run_commands: the index of the command run after command i
next_command_stop_on_error(i, err) == IF err # "nil" THEN 0 ELSE i + 1

next_command(i, err) == i + 1

\* run_commands from command i on: what it runs and prints, errs[k] being the
\* error CombinedOutput returns for command k
RECURSIVE command_loop(_, _, _)
command_loop(os, errs, i) ==
    IF i < 1 \/ i > Len(Commands(os)) THEN <<>>
    ELSE << [Event("CombinedOutput", "", <<>>, errs[i])
                EXCEPT !.n = i, !.cmd = launch(os, Commands(os)[i])],
            [Event("Ouput", "", <<>>, "")
                EXCEPT !.n = i, !.cmd = launch(os, Commands(os)[i])] >>
         \o command_loop(os, errs, next_command(i, errs[i]))

\* main, lines 82-85: run_commands, then os.Exit(0)
RunCommands ==
    /\ pc = "run_commands"
    /\ ~exited
    /\ \E errs \in [1..Len(Commands(goos)) -> {"nil", "exit status 1"}] :
          log' = (log \o command_loop(goos, errs, 1))
                    \o <<Event("Installation completed successfully!", "", <<>>, "")>>
    /\ ExitWith(0)
    /\ UNCHANGED <<goos, hasProc, idx, fidx, fs, dirs, regPath, service, shortcut,
                   run, snap, arg, ret, called>>

\* the installer is started again on the machine the last run left
Rerun ==
    /\ exited
    /\ run < MaxRuns
    /\ run' = run + 1
    /\ pc' = "check_privileges"
    /\ idx' = 1
    /\ fidx' = 1
    /\ exited' = FALSE
    /\ status' = 0
    /\ log' = <<>>
    /\ snap' = Machine
    /\ UNCHANGED <<goos, hasProc, fs, dirs, regPath, service, shortcut, arg, ret, called>>

Next ==
    \/ CheckPrivileges
    \/ CreateDirectory
    \/ AddApplicationSourceLog
    \/ ProcessFile
    \/ AddToSystemPath
    \/ RunCommands
    \/ Rerun

Spec == Init /\ [][Next]_vars

-----------------------------------------------------------------------------
(* Specifications of the pure functions: the argument is drawn, the function called *)

IdleInstaller ==
    /\ goos = "windows"
    /\ hasProc = TRUE
    /\ pc = "idle"
    /\ idx = 1
    /\ fidx = 1
    /\ exited = FALSE
    /\ status = 0
    /\ fs = [p \in AllPaths(goos) |-> Absent]
    /\ dirs = {}
    /\ regPath = NoValue
    /\ service = "none"
    /\ shortcut = NoLink
    /\ log = <<>>
    /\ run = 1
    /\ snap = [fs |-> fs, dirs |-> dirs, regPath |-> regPath, service |-> service,
               shortcut |-> shortcut]

ListAlphabet == {"a", ";", ":"}

Separators == {";", ":"}

InitJoin ==
    /\ IdleInstaller
    /\ arg \in [fn : {"add_string_list_value"},
                list : SeqsUpTo(ListAlphabet, MaxListLen),
                new_value : SeqsUpTo(ListAlphabet, MaxValueLen),
                separator : Separators]
    /\ ret = <<>>
    /\ called = FALSE

CallJoin ==
    /\ ~called
    /\ arg.fn = "add_string_list_value"
    /\ ret' = add_string_list_value(arg.list, arg.new_value, arg.separator)
    /\ called' = TRUE
    /\ UNCHANGED <<installerVars, arg>>

SpecJoin == InitJoin /\ [][CallJoin]_vars

CmdAlphabet == {"a", " ", "^", "\""}

InitEscape ==
    /\ IdleInstaller
    /\ arg \in [fn : {"execute_windows_command"},
                command : SeqsUpTo(CmdAlphabet, MaxCmdLen)]
    /\ ret = <<>>
    /\ called = FALSE

CallEscape ==
    /\ ~called
    /\ arg.fn = "execute_windows_command"
    /\ ret' = execute_windows_command(arg.command)
    /\ called' = TRUE
    /\ UNCHANGED <<installerVars, arg>>

SpecEscape == InitEscape /\ [][CallEscape]_vars

-----------------------------------------------------------------------------
(* installer_windows.go, call by call: the functions as sequences of OS calls *)

\* the handles a sequence of calls has obtained and not closed
IsClose(c) == c.call \in {"CloseServiceHandle", "RegCloseKey", "FreeSid"}

Obtained(calls) ==
    {calls[i].handle : i \in {j \in 1..Len(calls) : ~IsClose(calls[j]) /\ calls[j].handle # ""}}

Closed(calls) ==
    {calls[i].handle : i \in {j \in 1..Len(calls) : IsClose(calls[j])}}

\* a call that obtains no handle (it failed, or it is not an acquisition)
Call(name) == [call |-> name, handle |-> ""]

\* a call that succeeded and obtained the handle, or a call that closes it
CallOn(name, handle) == [call |-> name, handle |-> handle]

\* what the service control manager can answer, svc being the state of the
\* application's service: a service that exists cannot be created again
ServiceInputs ==
    {o \in [svc : {"none", "stopped", "running"}, scm : {0, 1}, nameErr : BOOLEAN,
            pathErr : BOOLEAN, create : {0, 1}, start : {0, 1}] :
        o.svc # "none" => o.create = 0}

\* create_service that requests the start whatever CreateServiceW returned
create_service_start_anyway(o) ==
    IF o.scm = 0
    THEN [res |-> "failed to open Service Control Manager", service |-> o.svc,
          calls |-> <<Call("OpenSCManagerW")>>, exited |-> FALSE]
    ELSE [res |-> IF o.start = 0 THEN "failed to start service" ELSE "Service is running.",
          service |-> o.svc,
          calls |-> <<CallOn("OpenSCManagerW", "service_manager"),
                      Call("CreateServiceW"), Call("StartServiceW")>>,
          exited |-> FALSE]

\* create_service, lines 113-160: the result, the service it leaves, the OS
\* calls it made in order, and whether it ended the process
create_service_calls(o) ==
    IF o.scm = 0
    THEN [res |-> "failed to open Service Control Manager", service |-> o.svc,
          calls |-> <<Call("OpenSCManagerW")>>, exited |-> FALSE]
    ELSE LET opened == <<CallOn("OpenSCManagerW", "service_manager")>>
         IN
         IF o.nameErr
         THEN [res |-> "failed to generate UTF16 service name", service |-> o.svc,
               calls |-> opened, exited |-> FALSE]
         ELSE IF o.pathErr
         THEN [res |-> "failed to generate UTF16 service executable path",
               service |-> o.svc, calls |-> opened, exited |-> FALSE]
         ELSE IF o.create = 0
         THEN [res |-> "failed to create service", service |-> o.svc,
               calls |-> Append(opened, Call("CreateServiceW")), exited |-> FALSE]
         ELSE LET created == Append(opened, CallOn("CreateServiceW", "service_handle"))
              IN
              IF o.start = 0
              THEN [res |-> "failed to start service", service |-> "stopped",
                    calls |-> Append(created, Call("StartServiceW")), exited |-> FALSE]
              ELSE [res |-> "Service is running.", service |-> "running",
                    calls |-> created \o <<Call("StartServiceW"),
                                           CallOn("CloseServiceHandle", "service_handle"),
                                           CallOn("CloseServiceHandle", "service_manager")>>,
                    exited |-> FALSE]

InitService ==
    /\ IdleInstaller
    /\ arg \in [fn : {"create_service"}, o : ServiceInputs]
    /\ ret = <<>>
    /\ called = FALSE

CallCreateService ==
    /\ ~called
    /\ arg.fn = "create_service"
    /\ ret' = create_service_calls(arg.o)
    /\ called' = TRUE
    /\ UNCHANGED <<installerVars, arg>>

SpecService == InitService /\ [][CallCreateService]_vars

\* what the OS can answer to check_administrator (Err: the thread's last error
\* after the call, the error value LazyProc.Call returns) and the effective
\* user id on POSIX
AdministratorInputs(os) ==
    IF os = "windows"
    THEN [euid : {0}, allocRet : {0, 1}, allocErr : {0, 5}, queryRet : {0, 1},
          queryErr : {0, 5}, freeRet : {0, 1}, is_member : {0, 1}]
    ELSE [euid : {0, 1, 1000}, allocRet : {0}, allocErr : {0}, queryRet : {0},
          queryErr : {0}, freeRet : {0}, is_member : {0}]

\* the error value of a LazyProc.Call: never nil
Errno(n) == <<"Errno", n>>

Nil == <<"nil">>

\* check_administrator that returns on a failed query before releasing the SID
check_administrator_free_on_success(o) ==
    IF o.allocRet = 0
    THEN [priv |-> FALSE, err |-> Errno(o.allocErr),
          calls |-> <<Call("AllocateAndInitializeSid")>>]
    ELSE LET queried == <<CallOn("AllocateAndInitializeSid", "sid"),
                          Call("CheckTokenMembership")>>
         IN
         IF o.queryRet = 0
         THEN [priv |-> FALSE, err |-> Errno(o.queryErr), calls |-> queried]
         ELSE LET calls == Append(queried, CallOn("FreeSid", "sid"))
              IN  IF o.freeRet # 0
                  THEN [priv |-> FALSE, err |-> Errno(o.queryErr), calls |-> calls]
                  ELSE [priv |-> o.is_member # 0, err |-> Nil, calls |-> calls]

\* check_administrator that does not look at what FreeSid returned
check_administrator_ignores_free(o) ==
    IF o.allocRet = 0
    THEN [priv |-> FALSE, err |-> Errno(o.allocErr),
          calls |-> <<Call("AllocateAndInitializeSid")>>]
    ELSE LET calls == <<CallOn("AllocateAndInitializeSid", "sid"),
                        Call("CheckTokenMembership"), CallOn("FreeSid", "sid")>>
         IN
         IF o.queryRet = 0
         THEN [priv |-> FALSE, err |-> Errno(o.queryErr), calls |-> calls]
         ELSE [priv |-> o.is_member # 0, err |-> Nil, calls |-> calls]

\* check_administrator, lines 74-108: what it returns and the OS calls it made
check_administrator_calls(o) ==
    IF o.allocRet = 0
    THEN [priv |-> FALSE, err |-> Errno(o.allocErr),
          calls |-> <<Call("AllocateAndInitializeSid")>>]
    ELSE LET calls == <<CallOn("AllocateAndInitializeSid", "sid"),
                        Call("CheckTokenMembership"), CallOn("FreeSid", "sid")>>
         IN
         IF o.queryRet = 0
         THEN [priv |-> FALSE, err |-> Errno(o.queryErr), calls |-> calls]
         ELSE IF o.freeRet # 0
         THEN [priv |-> FALSE, err |-> Errno(o.queryErr), calls |-> calls]
         ELSE [priv |-> o.is_member # 0, err |-> Nil, calls |-> calls]

\* check_root of the POSIX build
check_root_calls(o) ==
    [priv |-> check_root(o.euid).priv, err |-> Nil, calls |-> <<Call("Geteuid")>>]

\* check_privileges, lines 260-267
check_privileges_calls(os, o) ==
    IF os = "windows" THEN check_administrator_calls(o) ELSE check_root_calls(o)

InitPrivilege ==
    /\ IdleInstaller
    /\ \E os \in {"windows", "linux"} :
          arg \in [fn : {"check_privileges"}, os : {os}, o : AdministratorInputs(os)]
    /\ ret = <<>>
    /\ called = FALSE

CallCheckPrivileges ==
    /\ ~called
    /\ arg.fn = "check_privileges"
    /\ ret' = check_privileges_calls(arg.os, arg.o)
    /\ called' = TRUE
    /\ UNCHANGED <<installerVars, arg>>

SpecPrivilege == InitPrivilege /\ [][CallCheckPrivileges]_vars

\* the Path values add_to_system_path can find, the empty string included
RegistryPathValues == InitialPathValues \cup {[exists |-> TRUE, data |-> <<>>]}

\* what the registry can answer to add_to_system_path: whether a call did its
\* work (Ok, the status in its return value) and the thread's last error after
\* it (Err), which is what the code tests
PathCallInputs ==
    [openOk : BOOLEAN, openErr : {0, 1}, sizeErr : {0, 1}, contentErr : {0, 1},
     setOk : BOOLEAN, setErr : {0, 1}]

\* add_to_system_path, lines 165-196: the error it returns, the Path value it
\* leaves, the OS calls it made, and whether it ended the process (the panic of
\* &buffer[0] on an empty buffer; the deferred RegCloseKey still runs)
add_to_system_path_calls(value, new_path, o) ==
    LET key == IF o.openOk THEN "key" ELSE ""
        open == <<CallOn("RegOpenKeyExW", key)>>
        close == <<CallOn("RegCloseKey", key)>>
        size == Call("RegQueryValueExW size")
        content == Call("RegQueryValueExW content")
        set == Call("RegSetValueExW")
        buffer_size == IF o.openOk /\ value.exists THEN 2 * Len(value.data) ELSE 0
    IN
    IF o.openErr # 0
    THEN [res |-> "failed to open registry key", value |-> value, calls |-> open,
          exited |-> FALSE]
    ELSE IF o.sizeErr # 0
    THEN [res |-> "Error getting buffer size", value |-> value,
          calls |-> (open \o <<size>>) \o close, exited |-> FALSE]
    ELSE IF buffer_size \div 2 = 0
    THEN [res |-> "panic", value |-> value,
          calls |-> (open \o <<size>>) \o close, exited |-> TRUE]
    ELSE IF o.contentErr # 0
    THEN [res |-> "failed to query Path value", value |-> value,
          calls |-> (open \o <<size, content>>) \o close, exited |-> FALSE]
    ELSE
      LET buffer == value.data
          new_path_value == add_string_list_value(UTF16ToString(buffer), new_path, ";")
          stored == IF o.setOk THEN [exists |-> TRUE, data |-> new_path_value] ELSE value
          calls == (open \o <<size, content, set>>) \o close
      IN  IF o.setErr # 0
          THEN [res |-> "failed to set new Path value", value |-> stored,
                calls |-> calls, exited |-> FALSE]
          ELSE [res |-> "nil", value |-> stored, calls |-> calls, exited |-> FALSE]

\* what add_application_source_log can meet: whether advapi32.dll resolves
\* "RegCreateKeyEx", whether the call created the key, the last error after it
EventLogInputs == [found : BOOLEAN, createOk : BOOLEAN, createErr : {0, 5}]

\* add_application_source_log, lines 263-282: LazyProc.Call panics when the
\* name is not found; when it returns, its error is never nil, so line 267
\* always takes the failure branch, before the defer of line 271
add_application_source_log_calls(o) ==
    IF ~o.found
    THEN [res |-> "panic", value |-> NoValue, calls |-> <<>>, exited |-> TRUE]
    ELSE [res |-> "Failed to register event source", value |-> NoValue,
          calls |-> <<CallOn("RegCreateKeyEx", IF o.createOk THEN "key" ELSE "")>>,
          exited |-> FALSE]

InitRegistry ==
    /\ IdleInstaller
    /\ \/ arg \in [fn : {"add_to_system_path"}, value : RegistryPathValues,
                   o : PathCallInputs]
       \/ arg \in [fn : {"add_application_source_log"}, value : {NoValue},
                   o : EventLogInputs]
    /\ ret = <<>>
    /\ called = FALSE

CallAddToSystemPath ==
    /\ ~called
    /\ arg.fn = "add_to_system_path"
    /\ ret' = add_to_system_path_calls(arg.value, <<program_directory("windows")>>, arg.o)
    /\ called' = TRUE
    /\ UNCHANGED <<installerVars, arg>>

CallAddApplicationSourceLog ==
    /\ ~called
    /\ arg.fn = "add_application_source_log"
    /\ ret' = add_application_source_log_calls(arg.o)
    /\ called' = TRUE
    /\ UNCHANGED <<installerVars, arg>>

NextRegistry == CallAddToSystemPath \/ CallAddApplicationSourceLog

SpecRegistry == InitRegistry /\ [][NextRegistry]_vars

-----------------------------------------------------------------------------
(* The PATH step of successive installer runs on one machine *)

PathAlphabet == {"a", "b", ";"}

\* program_directory as a string of characters: not empty, no separator
Directories == {d \in SeqsUpTo({"a", "b"}, 2) : d # <<>>}

\* the number of places where d occurs in v
CountOccurrences(v, d) ==
    Cardinality({i \in 1..(Len(v) - Len(d) + 1) : SubSeq(v, i, i + Len(d) - 1) = d})

\* the Path values the first run can find: none, or a string stored with or
\* without its terminating NUL
StoredValues ==
    {NoValue}
       \cup {[exists |-> TRUE, data |-> s] : s \in SeqsUpTo(PathAlphabet, MaxValueLen)}
       \cup {[exists |-> TRUE, data |-> Append(s, NUL)] :
                s \in SeqsUpTo(PathAlphabet, MaxValueLen)}

InitPublish ==
    /\ IdleInstaller
    /\ \E d \in Directories :
          arg \in [fn : {"publish"}, D : {d},
                   value : {v \in StoredValues : CountOccurrences(v.data, d) = 0}]
    /\ ret = [value |-> arg.value, before |-> arg.value, k |-> 0, published |-> TRUE,
              wrote |-> FALSE]
    /\ called = FALSE

\* main, lines 78-80, in the next run of the installer: k counts the runs,
\* published tells that in each of them add_to_system_path returned nil after
\* RegSetValueExW stored the value
Publish ==
    /\ arg.fn = "publish"
    /\ ret.k < MaxPublishes
    /\ \E o \in PathCallInputs :
          LET r == add_to_system_path_calls(ret.value, arg.D, o)
              set == \E i \in 1..Len(r.calls) : r.calls[i].call = "RegSetValueExW"
          IN  ret' = [value |-> r.value, before |-> ret.value, k |-> ret.k + 1,
                      published |-> ret.published /\ r.res = "nil" /\ o.setOk,
                      wrote |-> set /\ o.setOk]
    /\ called' = TRUE
    /\ UNCHANGED <<installerVars, arg>>

SpecPath == InitPublish /\ [][Publish]_vars

-----------------------------------------------------------------------------
(* One run in which the listing of an embedded category can fail *)

\* process_directory that treats a failed listing like a failed directory creation
ExitOnReadDirError ==
    /\ ExitWith(1)
    /\ UNCHANGED <<idx, fidx>>

\* process_directory, lines 164-167: print and return; process_directories
\* goes on with the next category, main with the step after the last one
AfterReadDirError ==
    /\ fidx' = 1
    /\ IF idx < Len(CategoryOrder)
       THEN /\ idx' = idx + 1
            /\ pc' = pc
       ELSE /\ idx' = 1
            /\ pc' = IF goos = "windows" THEN "add_to_system_path" ELSE "run_commands"
    /\ UNCHANGED <<exited, status>>

\* process_directory when files.ReadDir returns an error
ReadDirFails ==
    /\ pc = "process_directories"
    /\ ~exited
    /\ fidx = 1
    /\ LET cat == CategoryOrder[idx]
       IN  log' = Append(log, Event("ReadDir", cat, <<TargetDir(goos, cat)>>, "error"))
    /\ AfterReadDirError
    /\ UNCHANGED <<goos, hasProc, fs, dirs, regPath, service, shortcut, run, snap,
                   arg, ret, called>>

NextEmbed ==
    \/ CheckPrivileges
    \/ CreateDirectory
    \/ AddApplicationSourceLog
    \/ ReadDirFails
    \/ ProcessFile
    \/ AddToSystemPath
    \/ RunCommands

SpecEmbed == Init /\ [][NextEmbed]_vars

-----------------------------------------------------------------------------
(* Properties: helpers *)

LogIndices == 1..Len(log)

IsWrite(e) == e.op = "write_file"

IsCombinedOutput(e) == e.op = "CombinedOutput"

IsOuput(e) == e.op = "Ouput"

\* the embedded content of entry n of a category
Embedded(cat, n) == Bundle(cat)[n].data

\* no later write_file of this run went to the path of entry i
LastWriteTo(i) ==
    \A j \in LogIndices : (j > i /\ IsWrite(log[j])) => log[j].path # log[i].path

Refused == log # <<>> /\ log[1].op = "check_privileges" /\ log[1].res # "privileged"

-----------------------------------------------------------------------------
(* C1 *)

\* C1: whenever check_privileges answers false or an error, the process has
\* exited with status 5 and the run has done nothing else: no directory, no
\* file, no registry, service or shortcut change, no command.
C1_RefusedRunExitsFiveUntouched ==
    Refused => /\ exited
               /\ status = 5
               /\ Len(log) = 1
               /\ Machine = snap

C1_Witness ==
    /\ Refused
    /\ log[1].res = "not privileged"
    /\ exited
    /\ status = 5
    /\ run = 2
    /\ dirs # {}

-----------------------------------------------------------------------------
(* C2 *)

\* C2: a data file that exists when write_file is called keeps its content:
\* write_file skips it, and every data file the run found on the machine
\* still has the content it had, in every run.
C2_ExistingDataFileKept ==
    /\ \A p \in DataPaths(goos) : snap.fs[p] # Absent => fs[p] = snap.fs[p]
    /\ \A i \in LogIndices :
          (IsWrite(log[i]) /\ log[i].cat = "data" /\ log[i].pre # Absent)
             => /\ log[i].res = "Data file already exists"
                /\ fs[log[i].path] = log[i].pre

C2_Witness ==
    /\ run = 2
    /\ exited
    /\ status = 0
    /\ \E i \in LogIndices :
          /\ IsWrite(log[i])
          /\ log[i].cat = "data"
          /\ log[i].stat = "nil"
          /\ log[i].pre = "old bytes"
          /\ fs[log[i].path] = "old bytes"

-----------------------------------------------------------------------------
(* C3 *)

\* C3: when no file is present at the target of a data file and write_file
\* returns (it did not exit with status 2), the file is there with the
\* embedded content.
C3_AbsentDataFileWritten ==
    \A i \in LogIndices :
        (IsWrite(log[i]) /\ log[i].cat = "data" /\ log[i].pre = Absent
            /\ log[i].res # "error")
           => fs[log[i].path] = Embedded("data", log[i].n)

-----------------------------------------------------------------------------
(* C4 *)

\* C4: write_file never skips a program, gui or service file: whatever was at
\* the path, it calls os.WriteFile, and unless that fails (the run then ends
\* with status 2) the path holds the embedded content.
C4_OtherCategoriesOverwritten ==
    \A i \in LogIndices :
        (IsWrite(log[i]) /\ log[i].cat # "data")
           => /\ log[i].res \in {"Installed", "error"}
              /\ log[i].res = "error" => (exited /\ status = 2 /\ i = Len(log))
              /\ (log[i].res = "Installed" /\ LastWriteTo(i))
                    => fs[log[i].path] = Embedded(log[i].cat, log[i].n)

C4_Witness ==
    /\ run = 2
    /\ \E i \in LogIndices :
          /\ IsWrite(log[i])
          /\ log[i].cat = "program"
          /\ log[i].pre = Partial
          /\ log[i].res = "Installed"
          /\ fs[log[i].path] = Embedded("program", log[i].n)

-----------------------------------------------------------------------------
(* C5 *)

PrivilegeFailed == Refused

DirectoryFailed ==
    \E i \in LogIndices : log[i].op = "create_directory" /\ log[i].res # "nil"

WriteFailed == \E i \in LogIndices : IsWrite(log[i]) /\ log[i].res = "error"

\* C5: the exit status is 5 exactly when the privilege check failed, 1 exactly
\* when a directory creation failed, 2 exactly when a file write failed, and 0
\* exactly when none of these happened (stated for machines on which every
\* procedure the installer looks up is found).
C5_ExitStatusNamesFailure ==
    (exited /\ hasProc)
       => /\ status \in {0, 1, 2, 5}
          /\ status = 5 <=> PrivilegeFailed
          /\ status = 1 <=> DirectoryFailed
          /\ status = 2 <=> WriteFailed
          /\ status = 0 <=> ~(PrivilegeFailed \/ DirectoryFailed \/ WriteFailed)

-----------------------------------------------------------------------------
(* C6 *)

CategoryPhase(cat) ==
    CASE cat = "data" -> 2 [] cat = "program" -> 3 [] cat = "gui" -> 4
      [] cat = "service" -> 5

\* the phase of an event when menu integration is a phase of its own, with the
\* PATH update, after the four categories
PhaseAsClaimed(e) ==
    CASE e.op = "check_privileges" -> 0
      [] e.op \in {"create_directory", "add_application_source_log"} -> 1
      [] e.op \in {"ReadFile", "write_file", "create_service"} -> CategoryPhase(e.cat)
      [] e.op \in {"add_to_system_path", "add_to_windows_menu"} -> 6
      [] e.op \in {"CombinedOutput", "Ouput"} -> 7
      [] OTHER -> 8

\* the phase of an event when a callback belongs to the deployment of its category
Phase(e) ==
    CASE e.op = "check_privileges" -> 0
      [] e.op \in {"create_directory", "add_application_source_log"} -> 1
      [] e.op \in {"ReadFile", "write_file", "create_service", "add_to_windows_menu"}
            -> CategoryPhase(e.cat)
      [] e.op = "add_to_system_path" -> 6
      [] e.op \in {"CombinedOutput", "Ouput"} -> 7
      [] OTHER -> 8

\* C6 as claimed: directories, then data, program, gui, service, then PATH and
\* menu integration, then the commands, each phase over before the next starts.
C6_PhasesAsClaimed ==
    \A i \in LogIndices :
        i < Len(log) => PhaseAsClaimed(log[i]) <= PhaseAsClaimed(log[i + 1])

\* C6 as amended: directories, then data, program, gui, service, then the PATH
\* update, then the commands, each phase over before the next starts; a
\* callback (menu shortcut, service registration) runs inside its category's
\* phase, directly after the write of its file.
C6_PhasesInOrder ==
    /\ log # <<>> => log[1].op = "check_privileges"
    /\ \A i \in LogIndices : i < Len(log) => Phase(log[i]) <= Phase(log[i + 1])
    /\ \A j \in LogIndices :
          log[j].op \in {"add_to_windows_menu", "create_service"}
             => /\ j > 1
                /\ IsWrite(log[j - 1])
                /\ log[j - 1].path = log[j].path
                /\ log[j - 1].cat = log[j].cat

C6_Witness ==
    /\ exited
    /\ status = 0
    /\ goos = "windows"
    /\ \E i, j, k, l \in LogIndices :
          /\ i < j /\ j < k /\ k < l
          /\ log[i].op = "add_to_windows_menu"
          /\ IsWrite(log[j]) /\ log[j].cat = "service"
          /\ log[k].op = "add_to_system_path"
          /\ log[l].op = "CombinedOutput"

-----------------------------------------------------------------------------
(* C7 *)

Executed == SelectSeq(log, IsCombinedOutput)

Printed == SelectSeq(log, IsOuput)

CommandsDone == exited /\ status = 0

\* C7: run_commands runs every command of the platform's list once, in list
\* order, whatever the commands' statuses, and prints each command's output
\* right after running it, so in the same order.
C7_EveryCommandOnceInOrder ==
    IF ~CommandsDone
    THEN \A i \in LogIndices : ~IsCombinedOutput(log[i]) /\ ~IsOuput(log[i])
    ELSE LET executed == Executed
             printed == Printed
             commands == Commands(goos)
         IN  /\ Len(executed) = Len(commands)
             /\ Len(printed) = Len(commands)
             /\ \A k \in 1..Len(executed) :
                   /\ executed[k].n = k
                   /\ printed[k].n = k
                   /\ executed[k].cmd = IF goos = "windows"
                                        THEN CmdPrefix \o escape_command(commands[k])
                                        ELSE <<"sh", "-c">> \o commands[k]
             /\ \A i \in LogIndices :
                   IsCombinedOutput(log[i]) => (i < Len(log) /\ IsOuput(log[i + 1])
                                                   /\ log[i + 1].n = log[i].n)

C7_Witness ==
    /\ exited
    /\ status = 0
    /\ Len(Executed) = Len(Commands(goos))
    /\ Len(Executed) = 3
    /\ Executed[1].res = "nil"
    /\ Executed[2].res = "exit status 1"
    /\ Executed[3].res = "nil"
    /\ Printed[3].n = Executed[3].n

-----------------------------------------------------------------------------
(* C8 *)

Joined == called /\ arg.fn = "add_string_list_value"

\* C8: for a non-empty list L, add_string_list_value(L, V, s) is L, s, V when
\* L does not end with s, and L, V, s when it does.
C8_JoinRule ==
    (Joined /\ arg.list # <<>>)
       => LET L == arg.list
              V == arg.new_value
              s == arg.separator
          IN  /\ Len(ret) = Len(L) + Len(V) + 1
              /\ SubSeq(ret, 1, Len(L)) = L
              /\ IF Last(L) # s
                 THEN /\ ret[Len(L) + 1] = s
                      /\ SubSeq(ret, Len(L) + 2, Len(ret)) = V
                 ELSE /\ SubSeq(ret, Len(L) + 1, Len(L) + Len(V)) = V
                      /\ Last(ret) = s

\* ("a;", "a") gives "a;a;"
C8_Witness ==
    /\ Joined
    /\ arg.list = <<"a", ";">>
    /\ arg.new_value = <<"a">>
    /\ arg.separator = ";"
    /\ ret = <<"a", ";", "a", ";">>

-----------------------------------------------------------------------------
(* C9 *)

NoAdjacentSeparators(v, s) == \A i \in 1..(Len(v) - 1) : ~(v[i] = s /\ v[i + 1] = s)

\* the segments of v: its maximal runs of characters other than the separator
RECURSIVE Segments(_, _, _)
Segments(v, s, current) ==
    IF v = <<>> THEN (IF current = <<>> THEN <<>> ELSE <<current>>)
    ELSE IF Head(v) = s
         THEN (IF current = <<>> THEN <<>> ELSE <<current>>) \o Segments(Tail(v), s, <<>>)
         ELSE Segments(Tail(v), s, Append(current, Head(v)))

IsSegment(v, s) == v # <<>> /\ \A i \in 1..Len(v) : v[i] # s

\* C9 as claimed: whatever the existing value and the new segment, the joined
\* value has no two adjacent separators.
C9_NeverAdjacentSeparators ==
    Joined => NoAdjacentSeparators(ret, arg.separator)

\* C9 as amended: when the existing value has no two adjacent separators and
\* the new segment is not empty and holds no separator, the joined value has
\* no two adjacent separators and its segments are those of the existing
\* value followed by the new segment.
C9_JoinKeepsSingleSeparators ==
    (Joined /\ NoAdjacentSeparators(arg.list, arg.separator)
            /\ IsSegment(arg.new_value, arg.separator))
       => /\ NoAdjacentSeparators(ret, arg.separator)
          /\ Segments(ret, arg.separator, <<>>)
                = Segments(arg.list, arg.separator, <<>>) \o <<arg.new_value>>

C9_Witness ==
    /\ Joined
    /\ arg.list = <<"a", ";", ":">>
    /\ arg.new_value = <<":", "a">>
    /\ arg.separator = ";"
    /\ Segments(ret, ";", <<>>) = << <<"a">>, <<":">>, <<":", "a">> >>

-----------------------------------------------------------------------------
(* C10 *)

Escaped == called /\ arg.fn = "execute_windows_command"

\* the escape of one character
EscapedChar(c) ==
    CASE c = "^" -> <<"^", "^">>
      [] c = "\"" -> <<"^", "\"">>
      [] OTHER -> <<c>>

RECURSIVE EscapedEach(_)
EscapedEach(command) ==
    IF command = <<>> THEN <<>>
    ELSE EscapedChar(Head(command)) \o EscapedEach(Tail(command))

\* removing the caret escapes: a caret stands for the character after it
RECURSIVE Unescaped(_)
Unescaped(text) ==
    IF text = <<>> THEN <<>>
    ELSE IF Head(text) = "^" /\ Len(text) >= 2
         THEN <<text[2]>> \o Unescaped(SubSeq(text, 3, Len(text)))
         ELSE <<Head(text)>> \o Unescaped(Tail(text))

CommandText == SubSeq(ret, Len(CmdPrefix) + 1, Len(ret))

\* C10: the text after "/C " is the command with every caret doubled and every
\* double quote preceded by one caret, everything else unchanged and in order;
\* removing the caret escapes gives the command back.
C10_EscapeIsCharacterwise ==
    Escaped => /\ IsPrefix(CmdPrefix, ret)
               /\ CommandText = EscapedEach(arg.command)
               /\ Unescaped(CommandText) = arg.command

C10_Witness ==
    /\ Escaped
    /\ arg.command = <<"\"", "a", "^">>
    /\ CommandText = <<"^", "\"", "a", "^", "^">>

-----------------------------------------------------------------------------
(* C11 *)

ServiceReturned == called /\ arg.fn = "create_service"

\* C11: on every return path of create_service, every handle the call obtained
\* (service control manager handle, service handle) has been closed.
C11_ServiceHandlesClosed ==
    ServiceReturned => Obtained(ret.calls) \subseteq Closed(ret.calls)

-----------------------------------------------------------------------------
(* C20 *)

IsServiceStep(c) == c.call \in {"OpenSCManagerW", "CreateServiceW", "StartServiceW"}

ServiceSteps(calls) == SelectSeq(calls, IsServiceStep)

StepNames(calls) == [i \in 1..Len(calls) |-> calls[i].call]

\* C20: create_service attempts open manager, create service, start service in
\* that order, each at most once; the start is requested exactly when the
\* creation succeeded; after a failed step no later step is attempted, and the
\* process is not terminated.
C20_ServiceStepsInOrder ==
    ServiceReturned =>
        LET steps == ServiceSteps(ret.calls)
        IN  /\ IsPrefix(StepNames(steps), <<"OpenSCManagerW", "CreateServiceW", "StartServiceW">>)
            /\ Len(steps) >= 1
            /\ (Len(steps) = 3) <=> (Len(steps) >= 2 /\ steps[2].handle # "")
            /\ (Len(steps) = 3) <=> ("service_handle" \in Obtained(ret.calls))
            /\ \A i \in 1..Len(steps) :
                  (i < 3 /\ steps[i].handle = "") => Len(steps) = i
            /\ arg.o.scm = 0 => Len(steps) = 1
            /\ (arg.o.scm # 0 /\ ~arg.o.nameErr /\ ~arg.o.pathErr) => Len(steps) >= 2
            /\ (Len(steps) >= 2 /\ arg.o.create = 0) => Len(steps) = 2
            /\ ~ret.exited

\* the creation succeeds and the start fails: all three steps, once each
C20_Witness ==
    /\ ServiceReturned
    /\ arg.o.create = 1
    /\ arg.o.start = 0
    /\ StepNames(ServiceSteps(ret.calls)) = <<"OpenSCManagerW", "CreateServiceW", "StartServiceW">>
    /\ ret.res = "failed to start service"

-----------------------------------------------------------------------------
(* C12 *)

PrivilegeReturned == called /\ arg.fn = "check_privileges"

AdministratorReturned == PrivilegeReturned /\ arg.os = "windows"

IsFreeSid(c) == c.call = "FreeSid"

\* C12: when check_administrator returns and the SID was allocated, FreeSid has
\* been called on it exactly once, after the allocation, whether the membership
\* query succeeded or failed; when the allocation failed FreeSid is not called.
C12_SidFreedOnce ==
    AdministratorReturned =>
        LET frees == SelectSeq(ret.calls, IsFreeSid)
        IN  IF arg.o.allocRet # 0
            THEN /\ Len(frees) = 1
                 /\ frees[1].handle = "sid"
                 /\ ret.calls[1] = CallOn("AllocateAndInitializeSid", "sid")
                 /\ Obtained(ret.calls) \subseteq Closed(ret.calls)
            ELSE Len(frees) = 0

\* the SID is allocated and the membership query fails
C12_Witness ==
    /\ AdministratorReturned
    /\ arg.o.allocRet # 0
    /\ arg.o.queryRet = 0
    /\ ret.err # Nil
    /\ Len(SelectSeq(ret.calls, IsFreeSid)) = 1

-----------------------------------------------------------------------------
(* C19 *)

SidConstructed == arg.o.allocRet # 0

QuerySucceeded == SidConstructed /\ arg.o.queryRet # 0

SidReleased == QuerySucceeded /\ arg.o.freeRet = 0

PosixCheck ==
    (PrivilegeReturned /\ arg.os = "linux")
       => /\ ret.err = Nil
          /\ ret.priv <=> (arg.o.euid = 0)

\* C19 as claimed: check_administrator returns (true, nil) exactly when the SID
\* is constructed, the query succeeds and the token is a member, (false, nil)
\* when the query succeeds and it is not, and an error exactly when the SID
\* construction or the query fails; the POSIX check is euid = 0, never an error.
C19_ErrorOnlyFromSidOrQuery ==
    /\ AdministratorReturned
          => /\ (ret.priv /\ ret.err = Nil) <=> (QuerySucceeded /\ arg.o.is_member # 0)
             /\ (QuerySucceeded /\ arg.o.is_member = 0) => (~ret.priv /\ ret.err = Nil)
             /\ (ret.err # Nil) <=> ~QuerySucceeded
    /\ PosixCheck

\* C19 as amended: the release of the SID is a third cause of an error; the
\* answer is (true, nil) exactly when construction, query and release succeed
\* and the token is a member, (false, nil) exactly when they succeed and it is
\* not, and (false, error) exactly when one of the three fails.
C19_ErrorFromSidQueryOrRelease ==
    /\ AdministratorReturned
          => /\ (ret.priv /\ ret.err = Nil) <=> (SidReleased /\ arg.o.is_member # 0)
             /\ (~ret.priv /\ ret.err = Nil) <=> (SidReleased /\ arg.o.is_member = 0)
             /\ (ret.err # Nil) <=> ~SidReleased
             /\ (ret.err # Nil) => ~ret.priv
    /\ PosixCheck

\* an administrator whose SID could not be released is answered with an error
C19_Witness ==
    /\ AdministratorReturned
    /\ QuerySucceeded
    /\ arg.o.is_member # 0
    /\ arg.o.freeRet # 0
    /\ ~ret.priv
    /\ ret.err = Errno(arg.o.queryErr)

-----------------------------------------------------------------------------
(* C13 *)

RegistryReturned == called /\ arg.fn \in {"add_to_system_path", "add_application_source_log"}

\* C13: when add_to_system_path or add_application_source_log is over and the
\* registry key was opened or created, the key handle has been closed.
C13_RegistryKeyClosed ==
    RegistryReturned => Obtained(ret.calls) \subseteq Closed(ret.calls)

-----------------------------------------------------------------------------
(* C14 *)

PathReturned == called /\ arg.fn = "add_to_system_path"

\* a registry call of add_to_system_path that was made did not do its work
OpenFailed == ~arg.o.openOk

PathReadFailed == ~arg.o.openOk \/ ~arg.value.exists \/ arg.value.data = <<>>

PathWriteFailed ==
    /\ \E i \in 1..Len(ret.calls) : ret.calls[i].call = "RegSetValueExW"
    /\ ~arg.o.setOk

\* C14: every failure of a registry read or write inside add_to_system_path,
\* an empty or absent Path value included, comes back to the caller as an
\* error value, and the PATH step does not terminate the process.
C14_PathFailureReturned ==
    PathReturned =>
        /\ ~ret.exited
        /\ (OpenFailed \/ PathReadFailed \/ PathWriteFailed) => ret.res # "nil"

-----------------------------------------------------------------------------
(* C15 *)

CommandsRan ==
    /\ Len(Executed) = Len(Commands(goos))
    /\ log # <<>>
    /\ Last(log).op = "Installation completed successfully!"

\* C15: a run in which the privilege check, every directory creation and every
\* file write succeeded ends with status 0 after running every command,
\* whatever the best-effort steps (event log, service, shortcut, PATH,
\* commands) did.
C15_BestEffortFailuresSurvived ==
    (exited /\ ~PrivilegeFailed /\ ~DirectoryFailed /\ ~WriteFailed)
       => /\ status = 0
          /\ CommandsRan

-----------------------------------------------------------------------------
(* C16 *)

IsInstalled(e) == IsWrite(e) /\ e.res = "Installed"

\* C16: a service is registered for an executable only directly after that
\* executable's file has been written, and the PATH update happens only after
\* every program file has been written; the files then hold their embedded
\* content.
C16_WrittenBeforeRegistered ==
    /\ \A i \in LogIndices :
          log[i].op = "create_service"
             => /\ i > 1
                /\ IsInstalled(log[i - 1])
                /\ log[i - 1].cat = "service"
                /\ log[i - 1].path = log[i].path
                /\ fs[log[i].path] = Embedded("service", log[i - 1].n)
    /\ \A i \in LogIndices :
          log[i].op = "add_to_system_path"
             => \A n \in 1..Len(Bundle("program")) :
                   \E j \in 1..(i - 1) :
                      /\ IsInstalled(log[j])
                      /\ log[j].cat = "program"
                      /\ log[j].n = n
                      /\ log[j].path = FullPath(log[i].path[1], Bundle("program")[n].name)
                      /\ fs[log[j].path] = Embedded("program", n)

\* a finished Windows run over files of an older installation: the service was
\* started and the PATH updated
C16_Witness ==
    /\ goos = "windows"
    /\ exited
    /\ status = 0
    /\ snap.fs[FullPath(program_directory(goos), "svc")] = "old bytes"
    /\ \E i, j \in LogIndices :
          /\ i < j
          /\ log[i].op = "create_service"
          /\ log[i].res = "Service is running."
          /\ log[j].op = "add_to_system_path"
          /\ log[j].res = "nil"

-----------------------------------------------------------------------------
(* C17 *)

\* the directory the claim fixes for a platform and a category
ClaimedDirectory(os, cat) ==
    IF os = "windows"
    THEN (IF cat = "data" THEN "%PROGRAMDATA%\\app" ELSE "%PROGRAMFILES%\\app")
    ELSE CASE cat = "data"    -> "/var/lib/app"
           [] cat = "service" -> "/etc/systemd/system"
           [] OTHER           -> "/usr/local/bin/app"

PastCreateDirectories == pc \notin {"check_privileges", "create_directories", "exited"}

\* C17: every file is written into the directory of its platform and
\* category, nothing is written or created elsewhere, and on POSIX
\* /var/log/<app> is created.
C17_FilesInClaimedDirectories ==
    /\ \A i \in LogIndices :
          log[i].op \in {"write_file", "ReadFile"}
             => log[i].path = <<ClaimedDirectory(goos, log[i].cat),
                                Bundle(log[i].cat)[log[i].n].name>>
    /\ \A p \in DOMAIN fs :
          fs[p] # snap.fs[p]
             => \E i \in LogIndices : IsWrite(log[i]) /\ log[i].path = p
    /\ dirs \subseteq (snap.dirs \cup {ClaimedDirectory(goos, "program"),
                                       ClaimedDirectory(goos, "data")}
                                 \cup (IF goos = "linux" THEN {"/var/log/app"} ELSE {}))
    /\ (goos = "linux" /\ PastCreateDirectories)
          => {"/usr/local/bin/app", "/var/lib/app", "/var/log/app"} \subseteq dirs
    /\ (goos = "windows" /\ PastCreateDirectories)
          => {"%PROGRAMFILES%\\app", "%PROGRAMDATA%\\app"} \subseteq dirs

\* a finished POSIX run: the unit file is in /etc/systemd/system
C17_Witness ==
    /\ goos = "linux"
    /\ exited
    /\ status = 0
    /\ "/var/log/app" \in dirs
    /\ fs[<<"/etc/systemd/system", "svc">>] = "svc bytes"
    /\ fs[<<"/usr/local/bin/app", "ui">>] = "ui bytes"
    /\ \E i \in LogIndices :
          IsInstalled(log[i]) /\ log[i].path = <<"/etc/systemd/system", "svc">>

-----------------------------------------------------------------------------
(* C18 *)

IsHook(e) == e.op \in {"add_to_windows_menu", "create_service"}

HookOf(cat) ==
    CASE cat = "gui" -> "add_to_windows_menu"
      [] cat = "service" -> "create_service"
      [] OTHER -> "none"

\* C18: the write of a file is followed by a hook exactly when the platform is
\* Windows and the category is gui (shortcut only) or service (registration
\* only); the hook gets the path just written and runs once per file; on POSIX
\* there is no registration, no shortcut and no PATH change.
C18_HooksOnlyOnWindowsGuiAndService ==
    /\ \A i \in LogIndices :
          (IsWrite(log[i]) /\ log[i].res # "error")
             => LET hooked == i < Len(log) /\ IsHook(log[i + 1])
                IN  /\ hooked <=> (goos = "windows" /\ log[i].cat \in {"gui", "service"})
                    /\ hooked => /\ log[i + 1].op = HookOf(log[i].cat)
                                 /\ log[i + 1].path = log[i].path
                                 /\ log[i + 1].cat = log[i].cat
    /\ \A j \in LogIndices :
          IsHook(log[j])
             => /\ j > 1
                /\ IsWrite(log[j - 1])
                /\ \A k \in LogIndices :
                      (IsHook(log[k]) /\ log[k].path = log[j].path) => k = j
    /\ goos = "linux"
          => /\ \A i \in LogIndices : ~IsHook(log[i]) /\ log[i].op # "add_to_system_path"
             /\ service = snap.service
             /\ shortcut = snap.shortcut
             /\ regPath = snap.regPath

\* a finished Windows run: the shortcut points at the gui file, the service runs
C18_Witness ==
    /\ goos = "windows"
    /\ exited
    /\ status = 0
    /\ shortcut = FullPath(program_directory(goos), "ui")
    /\ service = "running"
    /\ \E i, j \in LogIndices :
          /\ log[i].op = "add_to_windows_menu" /\ log[i].res = "nil"
          /\ log[j].op = "create_service" /\ log[j].res = "Service is running."

-----------------------------------------------------------------------------
(* C21 *)

EventLogReturned == called /\ arg.fn = "add_application_source_log"

MadeCall(name) == \E i \in 1..Len(ret.calls) : ret.calls[i].call = name

\* C21: whenever the call that creates the event-log key succeeds,
\* add_application_source_log goes on to set the EventMessageFile value of the
\* key; a failure of the key creation is logged and never ends the process.
C21_EventMessageFileSet ==
    EventLogReturned =>
        /\ ~ret.exited
        /\ (arg.o.found /\ arg.o.createOk) => MadeCall("RegSetValueExW")

-----------------------------------------------------------------------------
(* C22 *)

\* C22: for an empty list add_string_list_value returns the new segment alone:
\* no separator is put before or after it, whatever the segment and the
\* separator.
C22_EmptyListGivesSegmentAlone ==
    (Joined /\ arg.list = <<>>)
       => /\ ret = arg.new_value
          /\ IsSegment(arg.new_value, arg.separator)
                => (Head(ret) # arg.separator /\ Last(ret) # arg.separator)

C22_Witness ==
    /\ Joined
    /\ arg.list = <<>>
    /\ arg.new_value = <<"a", ":">>
    /\ arg.separator = ";"
    /\ ret = <<"a", ":">>

-----------------------------------------------------------------------------
(* C23 *)

Publishing == arg.fn = "publish"

\* C23: the value the PATH update writes back begins with the value it read,
\* and after k runs that each published the directory D, from a value that did
\* not contain D, the stored Path contains D exactly k times.
C23_PathOnlyGrows ==
    Publishing =>
        /\ ret.wrote => /\ IsPrefix(UTF16ToString(ret.before.data), ret.value.data)
                        /\ Len(ret.value.data)
                              = Len(UTF16ToString(ret.before.data)) + Len(arg.D)
                                  + (IF UTF16ToString(ret.before.data) = <<>> THEN 0 ELSE 1)
        /\ ~ret.wrote => ret.value = ret.before
        /\ ret.published => CountOccurrences(ret.value.data, arg.D) = ret.k

\* "b;" and two runs publishing "a": "b;a;a;"
C23_Witness ==
    /\ Publishing
    /\ arg.value.data = <<"b", ";", NUL>>
    /\ arg.D = <<"a">>
    /\ ret.k = 2
    /\ ret.published
    /\ ret.value.data = <<"b", ";", "a", ";", "a", ";">>

-----------------------------------------------------------------------------
(* C24 *)

IsReadDirError(e) == e.op = "ReadDir"

IsReadFileError(e) == e.op = "ReadFile"

IsEntryEvent(e) == e.op \in {"ReadFile", "write_file", "add_to_windows_menu", "create_service"}

Listed(cat) == \A i \in LogIndices : ~(IsReadDirError(log[i]) /\ log[i].cat = cat)

PastProcessDirectories == pc \in {"add_to_system_path", "run_commands"} \/ (exited /\ status = 0)

\* C24: a category whose listing fails is skipped whole and a file whose read
\* fails is skipped alone (no write, no hook); neither ends the run, every
\* entry of every other category is still processed, and the run can end with
\* status 0.
C24_EmbedReadFailuresSkipped ==
    /\ \A i \in LogIndices :
          IsReadDirError(log[i])
             => /\ ~(exited /\ i = Len(log))
                /\ \A j \in LogIndices : IsEntryEvent(log[j]) => log[j].cat # log[i].cat
    /\ \A i \in LogIndices :
          IsReadFileError(log[i])
             => /\ ~(exited /\ i = Len(log))
                /\ fs[log[i].path] = snap.fs[log[i].path]
                /\ \A j \in LogIndices :
                      (IsWrite(log[j]) \/ IsHook(log[j])) => log[j].path # log[i].path
    /\ PastProcessDirectories
          => \A c \in Categories :
                Listed(c)
                   => \A n \in 1..Len(Bundle(c)) :
                         \E i \in LogIndices :
                            /\ log[i].op \in {"ReadFile", "write_file"}
                            /\ log[i].cat = c
                            /\ log[i].n = n
                            /\ Bundle(c)[n].isDir <=> IsReadFileError(log[i])

\* the listing of the program category and the read of a data entry failed;
\* the gui and service files were installed and the run ended with status 0
C24_Witness ==
    /\ exited
    /\ status = 0
    /\ \E i, j, k, l \in LogIndices :
          /\ i < j /\ j < k /\ k < l
          /\ IsReadFileError(log[i]) /\ log[i].cat = "data"
          /\ IsReadDirError(log[j]) /\ log[j].cat = "program"
          /\ IsInstalled(log[k]) /\ log[k].cat = "gui"
          /\ IsInstalled(log[l]) /\ log[l].cat = "service"

-----------------------------------------------------------------------------
(* C25 *)

\* C25: file_exists answers true for every stat outcome but "does not exist";
\* a data file whose target cannot be stat'ed is therefore skipped: nothing is
\* written, the run does not exit with status 2 there, and write_file returns
\* the full target path.
C25_UnstatableDataFileSkipped ==
    /\ \A e \in {"nil", "other error", "ErrNotExist"} :
          file_exists(e) <=> e # "ErrNotExist"
    /\ \A i \in LogIndices :
          (IsWrite(log[i]) /\ log[i].cat = "data" /\ log[i].stat = "other error")
             => /\ log[i].res = "Data file already exists"
                /\ fs[log[i].path] = log[i].pre
                /\ ~(exited /\ status = 2 /\ i = Len(log))
                /\ log[i].path = FullPath(data_directory(goos),
                                          Bundle("data")[log[i].n].name)

\* an absent data file that could not be stat'ed is still absent after a run
\* that ended with status 0
C25_Witness ==
    /\ exited
    /\ status = 0
    /\ \E i \in LogIndices :
          /\ IsWrite(log[i])
          /\ log[i].cat = "data"
          /\ log[i].stat = "other error"
          /\ log[i].pre = Absent
          /\ fs[log[i].path] = Absent

====
